---------------------------- MODULE Spec2Model ----------------------------
(***************************************************************************)
(* Model of ufo::DataExtractorCSVBackend::loadData                         *)
(* (src/ufo/utils/dataextractor/DataExtractorCSVBackend.cc).               *)
(*                                                                         *)
(* A CSV file is a sequence of rows, each a sequence of text cells.  Rows  *)
(* and columns are numbered from 1 here (from 0 in the C++ code), so the   *)
(* TLA+ index of a row is its 1-based line number in the file.             *)
(* Every eckit::UserError thrown by the code is identified by the place    *)
(* that throws it; the names of the error kinds are those of the design    *)
(* document.                                                               *)
(***************************************************************************)
EXTENDS Integers, Sequences, FiniteSets, TLC

VARIABLES
    contents,                \* the decoded file (eckit::CSVParser::decodeFile)
    interpolatedArrayGroup,  \* the payload group passed to loadData
    pc,                      \* position of loadData
    columnNames,             \* local columnNames
    payloadColumnIndex,      \* local payloadColumnIndex (0: not yet computed)
    columns,                 \* local columns: the allocated typed vectors
    row,                     \* loop variable of the row loop
    result,                  \* local result (DataExtractorInput)
    returned,                \* what the caller receives: NoTable or a result
    error,                   \* kind of the exception thrown, "none" if none
    errorLine                \* line number named by the exception (0: none)

vars == <<contents, interpolatedArrayGroup, pc, columnNames, payloadColumnIndex,
          columns, row, result, returned, error, errorLine>>

---------------------------------------------------------------------------
(* Bounds of the explored inputs *)

MaxColumns == 3
MaxDataRows == 2

---------------------------------------------------------------------------
(* Constants of the program *)

numHeaderRows == 2

missingValuePlaceholder == "_"

(* util::missingValue for the three element types, kept symbolic. *)
missingValue(type) ==
    CASE type = "int"    -> "missing<int>"
      [] type = "float"  -> "missing<float>"
      [] type = "string" -> "missing<string>"

---------------------------------------------------------------------------
(* Text helpers *)

beginsWith(str, substr) ==
    /\ Len(str) >= Len(substr)
    /\ SubSeq(str, 1, Len(substr)) = substr

endsWith(str, substr) ==
    /\ Len(str) >= Len(substr)
    /\ SubSeq(str, Len(str) - Len(substr) + 1, Len(str)) = substr

(* Position of the first '@' of path, 0 if there is none. *)
findAt(path) ==
    IF \E i \in 1..Len(path) : SubSeq(path, i, i) = "@"
    THEN CHOOSE i \in 1..Len(path) :
            /\ SubSeq(path, i, i) = "@"
            /\ \A j \in 1..(i - 1) : SubSeq(path, j, j) # "@"
    ELSE 0

(* ioda::convertV1PathToV2Path: var@Group becomes Group/var, any other name
   is left alone. *)
convertV1PathToV2Path(path) ==
    LET at == findAt(path)
    IN  IF at = 0 THEN path
        ELSE SubSeq(path, at + 1, Len(path)) \o "/" \o SubSeq(path, 1, at - 1)

---------------------------------------------------------------------------
(* Cell decoding *)

(* Cells that eckit::Value converts to a number. *)
NumericCells == {"1", "2", "4294967297"}

(* value_.as<long long>(): the number a cell denotes; the cell text stands
   for the number. *)
as_long_long(cell) == cell

(* static_cast<int>(long long): reduction modulo 2^32. *)
static_cast_int(v) == IF v = "4294967297" THEN "1" ELSE v

(* value_.as<double>() *)
as_double(cell) == cell

(* static_cast<float>(double): rounding to 24 significant bits. *)
static_cast_float(v) == IF v = "4294967297" THEN "4294967296" ELSE v

(* A plausible slip: the integer visitor converts the cell without looking
   for the placeholder. *)
AppendValueVisitor_ParsePlaceholder(cell, column) ==
    LET push(v) == [thrown |-> FALSE,
                    column |-> [column EXCEPT !.values = Append(@, v)]]
        throw == [thrown |-> TRUE, column |-> column]
    IN  CASE column.type = "int" ->
               IF cell \in NumericCells
               THEN push(static_cast_int(as_long_long(cell)))
               ELSE throw
          [] column.type = "float" ->
               IF cell = missingValuePlaceholder THEN push(missingValue("float"))
               ELSE IF cell \in NumericCells
                    THEN push(static_cast_float(as_double(cell)))
                    ELSE throw
          [] column.type = "string" ->
               IF cell = missingValuePlaceholder THEN push(missingValue("string"))
               ELSE push(cell)

(* AppendValueVisitor: appends the cell to the column.  thrown is TRUE when
   the conversion of the cell throws, and then nothing is appended. *)
AppendValueVisitor(cell, column) ==
    LET push(v) == [thrown |-> FALSE,
                    column |-> [column EXCEPT !.values = Append(@, v)]]
        throw == [thrown |-> TRUE, column |-> column]
    IN  CASE column.type = "int" ->
               IF cell = missingValuePlaceholder THEN push(missingValue("int"))
               ELSE IF cell \in NumericCells
                    THEN push(static_cast_int(as_long_long(cell)))
                    ELSE throw
          [] column.type = "float" ->
               IF cell = missingValuePlaceholder THEN push(missingValue("float"))
               ELSE IF cell \in NumericCells
                    THEN push(static_cast_float(as_double(cell)))
                    ELSE throw
          [] column.type = "string" ->
               IF cell = missingValuePlaceholder THEN push(missingValue("string"))
               ELSE push(cell)

(* The implicit int -> float conversion of output_(i, 0) = values[i]. *)
intToFloat(v) == IF v = missingValue("int") THEN "float(missing<int>)" ELSE v

(* A plausible slip: every row of the array receives values[0]. *)
ConvertToEigenArrayVisitor_FirstValue(column) ==
    [i \in 1..Len(column.values) |->
        IF column.type = "int" THEN intToFloat(column.values[1])
        ELSE column.values[1]]

(* ConvertToEigenArrayVisitor: the payload column as a rows x 1 array. *)
ConvertToEigenArrayVisitor(column) ==
    IF column.type = "int"
    THEN [i \in 1..Len(column.values) |-> intToFloat(column.values[i])]
    ELSE column.values

---------------------------------------------------------------------------
(* Payload column *)

isInPayloadGroup(name, payloadGroup) ==
    \/ beginsWith(name, payloadGroup \o "/")
    \/ endsWith(name, "@" \o payloadGroup)

(* A plausible slip: the first matching column is taken and later matches
   are not looked for. *)
findPayloadColumn_FirstMatch(names, payloadGroup) ==
    LET matching == {i \in 1..Len(names) : isInPayloadGroup(names[i], payloadGroup)}
    IN  IF matching = {}
        THEN [error |-> "NoPayloadColumnFound", index |-> 0]
        ELSE [error |-> "none",
              index |-> CHOOSE i \in matching : \A j \in matching : i <= j]

(* findPayloadColumn: index 0 stands for the exception named by error. *)
findPayloadColumn(names, payloadGroup) ==
    LET matching == {i \in 1..Len(names) : isInPayloadGroup(names[i], payloadGroup)}
    IN  IF matching = {}
        THEN [error |-> "NoPayloadColumnFound", index |-> 0]
        ELSE LET first == CHOOSE i \in matching : \A j \in matching : i <= j
             IN  IF \E j \in matching : j > first
                 THEN [error |-> "AmbiguousPayloadColumn", index |-> 0]
                 ELSE [error |-> "none", index |-> first]

---------------------------------------------------------------------------
(* Allocation of the typed columns *)

createColumn(type) == [type |-> type, values |-> <<>>]

RECURSIVE AllocateFrom(_, _, _, _, _)
(* The allocation loop from column c on, cols holding the columns allocated
   so far. *)
AllocateFrom(c, typeHeader, numCols, payloadIdx, cols) ==
    IF c > numCols THEN [error |-> "none", columns |-> cols]
    ELSE LET type == typeHeader[c]
         IN  IF type = "string" \/ type = "datetime"
             THEN IF c = payloadIdx
                  THEN [error |-> "PayloadMustBeNumeric", columns |-> cols]
                  ELSE AllocateFrom(c + 1, typeHeader, numCols, payloadIdx,
                                    Append(cols, createColumn("string")))
             ELSE IF type = "int" \/ type = "integer"
             THEN AllocateFrom(c + 1, typeHeader, numCols, payloadIdx,
                               Append(cols, createColumn("int")))
             ELSE IF type = "float"
             THEN AllocateFrom(c + 1, typeHeader, numCols, payloadIdx,
                               Append(cols, createColumn("float")))
             ELSE [error |-> "UnsupportedColumnType", columns |-> cols]

(* A plausible slip: the type of the payload column is not checked here. *)
AllocateColumns_NoPayloadCheck(typeHeader, numCols, payloadIdx) ==
    AllocateFrom(1, typeHeader, numCols, 0, <<>>)

AllocateColumns(typeHeader, numCols, payloadIdx) ==
    AllocateFrom(1, typeHeader, numCols, payloadIdx, <<>>)

---------------------------------------------------------------------------
(* Loading of one data row *)

isEmptyLine(rowContents) == Len(rowContents) = 1 /\ rowContents[1] = ""

RECURSIVE AppendFrom(_, _, _)
(* The inner loop over the columns from column c on. *)
AppendFrom(c, rowContents, cols) ==
    IF c > Len(cols) THEN [error |-> "none", columns |-> cols]
    ELSE LET r == AppendValueVisitor(rowContents[c], cols[c])
         IN  IF r.thrown
             THEN [error |-> "MalformedNumericLiteral", columns |-> cols]
             ELSE AppendFrom(c + 1, rowContents, [cols EXCEPT ![c] = r.column])

(* A plausible slip: the width of the row is checked before the test for an
   empty line. *)
LoadRow_WidthFirst(rowContents, numColumns, cols) ==
    IF Len(rowContents) # numColumns
    THEN [error |-> "DataRowColumnCountMismatch", columns |-> cols]
    ELSE IF isEmptyLine(rowContents) THEN [error |-> "none", columns |-> cols]
    ELSE AppendFrom(1, rowContents, cols)

(* The body of the row loop for one row. *)
LoadRow(rowContents, numColumns, cols) ==
    IF isEmptyLine(rowContents) THEN [error |-> "none", columns |-> cols]
    ELSE IF Len(rowContents) # numColumns
    THEN [error |-> "DataRowColumnCountMismatch", columns |-> cols]
    ELSE AppendFrom(1, rowContents, cols)

---------------------------------------------------------------------------
(* The result object *)

(* Nothing is returned: the call ended with an exception, or has not ended. *)
NoTable == [table |-> "none"]

EmptyResult ==
    [payloadArray     |-> <<>>,
     coordsVals       |-> <<>>,
     coord2DimMapping |-> <<>>,
     dim2CoordMapping |-> <<>>]

(* map[key] = value of an std::unordered_map. *)
Assign(map, key, value) ==
    [k \in (DOMAIN map) \cup {key} |-> IF k = key THEN value ELSE map[k]]

firstDim == 0

RECURSIVE StoreFrom(_, _, _, _, _)
(* The storing loop from column c on. *)
StoreFrom(c, cols, names, payloadIdx, res) ==
    IF c > Len(cols) THEN res
    ELSE IF c = payloadIdx
    THEN StoreFrom(c + 1, cols, names, payloadIdx,
                   [res EXCEPT !.payloadArray = ConvertToEigenArrayVisitor(cols[c])])
    ELSE StoreFrom(c + 1, cols, names, payloadIdx,
                   [res EXCEPT
                      !.coordsVals = Assign(@, names[c], cols[c]),
                      !.coord2DimMapping = Assign(@, names[c], firstDim),
                      !.dim2CoordMapping = [@ EXCEPT ![firstDim] = Append(@, names[c])]])

(* A plausible slip: the last column is taken for the payload column. *)
StoreResult_LastIsPayload(cols, names, payloadIdx) ==
    StoreFrom(1, cols, names, Len(cols),
              [EmptyResult EXCEPT !.dim2CoordMapping = [d \in {firstDim} |-> <<>>]])

StoreResult(cols, names, payloadIdx) ==
    StoreFrom(1, cols, names, payloadIdx,
              [EmptyResult EXCEPT !.dim2CoordMapping = [d \in {firstDim} |-> <<>>]])

---------------------------------------------------------------------------
(* loadData as a function of the file and the payload group *)

RECURSIVE LoadRowsFrom(_, _, _, _)
(* The row loop from row r on. *)
LoadRowsFrom(r, file, numColumns, cols) ==
    IF r > Len(file) THEN [error |-> "none", line |-> 0, columns |-> cols]
    ELSE LET l == LoadRow(file[r], numColumns, cols)
         IN  IF l.error # "none"
             THEN [error |-> l.error,
                   line |-> IF l.error = "DataRowColumnCountMismatch" THEN r ELSE 0,
                   columns |-> l.columns]
             ELSE LoadRowsFrom(r + 1, file, numColumns, l.columns)

Thrown(kind, line) == [error |-> kind, line |-> line, returned |-> NoTable]

LoadData(file, group) ==
    IF Len(file) <= numHeaderRows THEN Thrown("InsufficientData", 0)
    ELSE
    LET names      == file[1]
        numColumns == Len(names)
        found      == findPayloadColumn(names, group)
        v2names    == [c \in 1..numColumns |-> convertV1PathToV2Path(names[c])]
        typeHeader == file[2]
        alloc      == AllocateColumns(typeHeader, numColumns, found.index)
        loaded     == LoadRowsFrom(numHeaderRows + 1, file, numColumns, alloc.columns)
        res        == StoreResult(loaded.columns, v2names, found.index)
    IN  IF found.error # "none" THEN Thrown(found.error, 0)
        ELSE IF Len(typeHeader) # numColumns THEN Thrown("HeaderColumnCountMismatch", 0)
        ELSE IF alloc.error # "none" THEN Thrown(alloc.error, 0)
        ELSE IF loaded.error # "none" THEN Thrown(loaded.error, loaded.line)
        ELSE IF loaded.columns[found.index].type = "string"
             THEN Thrown("NotImplemented", 0)
        ELSE IF Len(res.payloadArray) = 0 THEN Thrown("NoDataLoaded", 0)
        ELSE [error |-> "none", line |-> 0, returned |-> res]

---------------------------------------------------------------------------
(* The explored files *)

(* A row of n cells, all equal to cell. *)
Row(n, cell) == [i \in 1..n |-> cell]

(* All rows of n cells drawn from cells. *)
Rows(n, cells) == [1..n -> cells]

ColumnNameSet == {"v@G", "G/v", "s", "s@H", "H/s", "aG/@Ga"}

GroupSet == {"G", "H"}

TypeTagSet == {"string", "datetime", "int", "float", "double"}

(* Files whose column names vary: every name row of up to MaxColumns names,
   with a type row of the same or of another length. *)
NameFiles ==
    UNION {
      { << names, Row(Len(names), "float"), Row(Len(names), "1") >>,
        << names, Row(Len(names), "int"), Row(Len(names), "_"), Row(Len(names), "2") >>,
        << names, Row(Len(names) + 1, "float"), Row(Len(names), "1") >> } :
      names \in UNION {Rows(n, ColumnNameSet) : n \in 1..MaxColumns} }

(* The name row of n columns whose p-th column is the payload column. *)
CoordinateNames == <<"s", "t@H", "H/u", "w">>

PayloadAt(n, p) ==
    [c \in 1..n |-> IF c = p THEN "v@G"
                    ELSE CoordinateNames[IF c < p THEN c ELSE c - 1]]

(* Files whose type tags vary: the payload column at every position, every
   type row of the same length, and data rows of several shapes. *)
TypeFiles ==
    UNION {
      { <<PayloadAt(n, p), types>> \o data :
          types \in Rows(n, TypeTagSet),
          data  \in { <<Row(n, "4294967297"), Row(n, "1")>>, <<Row(n, "x")>>,
                      <<Row(1, "")>>, <<Row(n + 1, "1")>> } } :
      <<n, p>> \in {np \in (1..MaxColumns) \X (1..MaxColumns) : np[2] <= np[1]} }

(* Files whose data rows vary: a few valid headers, and every sequence of up
   to MaxDataRows rows, each a blank line or a row of one or two cells. *)
DataHeaders ==
    { << <<"v@G">>, <<"float">> >>,
      << <<"G/v">>, <<"int">> >>,
      << <<"s", "v@G">>, <<"string", "float">> >>,
      << <<"s@H", "G/v">>, <<"int", "integer">> >>,
      << <<"v@G", "s">>, <<"float", "datetime">> >>,
      << <<"G/v", "H/s">>, <<"int", "float">> >> }

DataCellSet == {"_", "1", "x"}

DataRowSet ==
    {Row(1, "")} \cup Rows(1, DataCellSet) \cup Rows(2, DataCellSet)

DataFiles ==
    { header \o data :
        header \in DataHeaders,
        data   \in UNION {[1..k -> DataRowSet] : k \in 0..MaxDataRows} }

(* Files too short to hold a data row. *)
ShortFiles == { <<>>, << <<"v@G">> >>, << <<"v@G">>, <<"float">> >>,
                << <<"s">>, <<"string", "float">> >> }

---------------------------------------------------------------------------
(* loadData, step by step *)

Init ==
    /\ \/ contents \in NameFiles /\ interpolatedArrayGroup \in GroupSet
       \/ contents \in TypeFiles \cup DataFiles \cup ShortFiles
          /\ interpolatedArrayGroup = "G"
    /\ pc = "decode"
    /\ columnNames = <<>>
    /\ payloadColumnIndex = 0
    /\ columns = <<>>
    /\ row = 0
    /\ result = EmptyResult
    /\ returned = NoTable
    /\ error = "none"
    /\ errorLine = 0

numRows == Len(contents)

numColumns == Len(contents[1])

(* throw eckit::UserError *)
Throw(kind, line) ==
    /\ pc' = "failed"
    /\ error' = kind
    /\ errorLine' = line

(* Lines 141-149: the file is decoded and its number of rows is checked. *)
Decode ==
    /\ pc = "decode"
    /\ IF numRows <= numHeaderRows
       THEN Throw("InsufficientData", 0)
       ELSE pc' = "names" /\ UNCHANGED <<error, errorLine>>
    /\ UNCHANGED <<contents, interpolatedArrayGroup, columnNames, payloadColumnIndex,
                   columns, row, result, returned>>

(* Lines 151-157: the column names are read from the first line. *)
ReadNames ==
    /\ pc = "names"
    /\ columnNames' = [column \in 1..numColumns |-> contents[1][column]]
    /\ pc' = "findPayload"
    /\ UNCHANGED <<contents, interpolatedArrayGroup, payloadColumnIndex, columns, row,
                   result, returned, error, errorLine>>

(* Line 159 *)
FindPayload ==
    /\ pc = "findPayload"
    /\ LET found == findPayloadColumn(columnNames, interpolatedArrayGroup)
       IN  IF found.error # "none"
           THEN Throw(found.error, 0) /\ UNCHANGED payloadColumnIndex
           ELSE /\ payloadColumnIndex' = found.index
                /\ pc' = "convert"
                /\ UNCHANGED <<error, errorLine>>
    /\ UNCHANGED <<contents, interpolatedArrayGroup, columnNames, columns, row, result,
                   returned>>

(* Lines 161-164 *)
ConvertNames ==
    /\ pc = "convert"
    /\ columnNames' = [column \in 1..Len(columnNames) |->
                          convertV1PathToV2Path(columnNames[column])]
    /\ pc' = "types"
    /\ UNCHANGED <<contents, interpolatedArrayGroup, payloadColumnIndex, columns, row,
                   result, returned, error, errorLine>>

(* A plausible slip: the length of the type row is not checked. *)
ReadTypes_Unchecked ==
    /\ pc = "types"
    /\ pc' = "allocate"
    /\ UNCHANGED <<contents, interpolatedArrayGroup, columnNames, payloadColumnIndex,
                   columns, row, result, returned, error, errorLine>>

(* Lines 166-169: the type row must be as long as the name row. *)
ReadTypes ==
    /\ pc = "types"
    /\ IF Len(contents[2]) # numColumns
       THEN Throw("HeaderColumnCountMismatch", 0)
       ELSE pc' = "allocate" /\ UNCHANGED <<error, errorLine>>
    /\ UNCHANGED <<contents, interpolatedArrayGroup, columnNames, payloadColumnIndex,
                   columns, row, result, returned>>

(* Lines 171-186 *)
Allocate ==
    /\ pc = "allocate"
    /\ LET alloc == AllocateColumns(contents[2], numColumns, payloadColumnIndex)
       IN  /\ columns' = alloc.columns
           /\ IF alloc.error # "none"
              THEN Throw(alloc.error, 0) /\ UNCHANGED row
              ELSE /\ pc' = "rows"
                   /\ row' = numHeaderRows + 1
                   /\ UNCHANGED <<error, errorLine>>
    /\ UNCHANGED <<contents, interpolatedArrayGroup, columnNames, payloadColumnIndex,
                   result, returned>>

(* A plausible slip: the exception names the 0-based index of the row. *)
LoadNextRow_ZeroBasedLine ==
    /\ pc = "rows"
    /\ row <= numRows
    /\ LET l == LoadRow(contents[row], numColumns, columns)
       IN  /\ columns' = l.columns
           /\ IF l.error # "none"
              THEN Throw(l.error,
                         IF l.error = "DataRowColumnCountMismatch" THEN row - 1 ELSE 0)
                   /\ UNCHANGED row
              ELSE /\ row' = row + 1
                   /\ UNCHANGED <<pc, error, errorLine>>
    /\ UNCHANGED <<contents, interpolatedArrayGroup, columnNames, payloadColumnIndex,
                   result, returned>>

(* Lines 189-198: one iteration of the row loop. *)
LoadNextRow ==
    /\ pc = "rows"
    /\ row <= numRows
    /\ LET l == LoadRow(contents[row], numColumns, columns)
       IN  /\ columns' = l.columns
           /\ IF l.error # "none"
              THEN Throw(l.error,
                         IF l.error = "DataRowColumnCountMismatch" THEN row ELSE 0)
                   /\ UNCHANGED row
              ELSE /\ row' = row + 1
                   /\ UNCHANGED <<pc, error, errorLine>>
    /\ UNCHANGED <<contents, interpolatedArrayGroup, columnNames, payloadColumnIndex,
                   result, returned>>

(* Lines 200-212: the loop is over and the result object is filled.  The
   conversion of a payload column of strings throws eckit::NotImplemented. *)
Store ==
    /\ pc = "rows"
    /\ row > numRows
    /\ IF columns[payloadColumnIndex].type = "string"
       THEN Throw("NotImplemented", 0) /\ UNCHANGED result
       ELSE /\ result' = StoreResult(columns, columnNames, payloadColumnIndex)
            /\ pc' = "check"
            /\ UNCHANGED <<error, errorLine>>
    /\ UNCHANGED <<contents, interpolatedArrayGroup, columnNames, payloadColumnIndex,
                   columns, row, returned>>

(* A plausible slip: the result is returned without the final check. *)
Return_Unchecked ==
    /\ pc = "check"
    /\ returned' = result
    /\ pc' = "done"
    /\ UNCHANGED <<contents, interpolatedArrayGroup, columnNames, payloadColumnIndex,
                   columns, row, result, error, errorLine>>

(* Lines 214-217 *)
Return ==
    /\ pc = "check"
    /\ IF Len(result.payloadArray) = 0
       THEN Throw("NoDataLoaded", 0) /\ UNCHANGED returned
       ELSE /\ returned' = result
            /\ pc' = "done"
            /\ UNCHANGED <<error, errorLine>>
    /\ UNCHANGED <<contents, interpolatedArrayGroup, columnNames, payloadColumnIndex,
                   columns, row, result>>

Next ==
    \/ Decode
    \/ ReadNames
    \/ FindPayload
    \/ ConvertNames
    \/ ReadTypes
    \/ Allocate
    \/ LoadNextRow
    \/ Store
    \/ Return

Spec == Init /\ [][Next]_vars

Finished == pc \in {"done", "failed"}

(* The steps compute what LoadData computes. *)
StepsAgreeWithLoadData ==
    Finished =>
        LoadData(contents, interpolatedArrayGroup) =
            [error |-> error, line |-> errorLine, returned |-> returned]

---------------------------------------------------------------------------
(* Vocabulary of the properties, stated on the file itself *)

(* name begins with text / name ends with text *)
HasPrefix(name, text) ==
    /\ Len(name) >= Len(text)
    /\ name = text \o SubSeq(name, Len(text) + 1, Len(name))

HasSuffix(name, text) ==
    /\ Len(name) >= Len(text)
    /\ name = SubSeq(name, 1, Len(name) - Len(text)) \o text

(* The columns of the name row that are in the payload group. *)
PayloadCandidates ==
    {i \in 1..Len(contents[1]) :
        \/ HasPrefix(contents[1][i], interpolatedArrayGroup \o "/")
        \/ HasSuffix(contents[1][i], "@" \o interpolatedArrayGroup)}

HasDataRows == numRows > numHeaderRows

---------------------------------------------------------------------------
(* C2: findPayloadColumn fails with NoPayloadColumnFound when no column name
   begins with group/ or ends with @group, fails with AmbiguousPayloadColumn
   when two or more names do, and otherwise yields the index of the one name
   that does. *)
C2_LocatePayload ==
    (HasDataRows /\ pc \in {"convert", "failed"}) =>
        /\ PayloadCandidates = {} =>
              pc = "failed" /\ error = "NoPayloadColumnFound"
        /\ Cardinality(PayloadCandidates) >= 2 =>
              pc = "failed" /\ error = "AmbiguousPayloadColumn"
        /\ Cardinality(PayloadCandidates) = 1 =>
              /\ payloadColumnIndex \in PayloadCandidates
              /\ error \notin {"NoPayloadColumnFound", "AmbiguousPayloadColumn"}

(* The single payload column, the second of three, has been located. *)
C2_Witness ==
    /\ pc = "convert"
    /\ Len(contents[1]) = 3
    /\ payloadColumnIndex = 2
    /\ PayloadCandidates = {2}

---------------------------------------------------------------------------
TypeRowMismatch == HasDataRows /\ Len(contents[2]) # Len(contents[1])

(* C3 as stated: a type row whose length differs from that of the name row
   makes the load fail with HeaderColumnCountMismatch, whatever the names. *)
C3_HeaderCheckFirst ==
    (Finished /\ TypeRowMismatch) =>
        pc = "failed" /\ error = "HeaderColumnCountMismatch"

(* C3: a type row whose length differs from that of the name row makes the
   load fail; the payload column is located first, so the failure is
   NoPayloadColumnFound when no name is in the payload group,
   AmbiguousPayloadColumn when several are, and HeaderColumnCountMismatch
   when exactly one is. *)
C3_HeaderCheckAfterLocate ==
    (Finished /\ TypeRowMismatch) =>
        /\ pc = "failed"
        /\ returned = NoTable
        /\ error = IF PayloadCandidates = {} THEN "NoPayloadColumnFound"
                   ELSE IF Cardinality(PayloadCandidates) >= 2
                        THEN "AmbiguousPayloadColumn"
                        ELSE "HeaderColumnCountMismatch"

(* A load has failed on the length of the type row. *)
C3_Witness ==
    /\ pc = "failed"
    /\ TypeRowMismatch
    /\ error = "HeaderColumnCountMismatch"
    /\ payloadColumnIndex > 0

---------------------------------------------------------------------------
(* More vocabulary: the header and the data rows of the file *)

RecognizedTags == {"string", "datetime", "int", "integer", "float"}

TextTags == {"string", "datetime"}

(* The kind of column a recognized tag declares. *)
KindOf(tag) ==
    IF tag \in TextTags THEN "string"
    ELSE IF tag = "float" THEN "float" ELSE "int"

(* The name var@Group written Group/var. *)
Normalized(name) ==
    IF \E k \in 1..Len(name) : SubSeq(name, k, k) = "@"
    THEN LET k == CHOOSE i \in 1..Len(name) :
                     /\ SubSeq(name, i, i) = "@"
                     /\ \A j \in 1..(i - 1) : SubSeq(name, j, j) # "@"
         IN  SubSeq(name, k + 1, Len(name)) \o "/" \o SubSeq(name, 1, k - 1)
    ELSE name

(* The two header rows are accepted: one payload column, as many type tags
   as names, every tag recognized, and a numeric payload tag. *)
HeadersValid ==
    /\ HasDataRows
    /\ Cardinality(PayloadCandidates) = 1
    /\ Len(contents[2]) = Len(contents[1])
    /\ \A c \in 1..Len(contents[2]) : contents[2][c] \in RecognizedTags
    /\ \A c \in PayloadCandidates : contents[2][c] \notin TextTags

ThePayloadColumn == CHOOSE c \in PayloadCandidates : TRUE

IsBlank(cells) == cells = <<"">>

(* The line numbers of the data rows that are not blank, in file order. *)
RECURSIVE NonBlankFrom(_)
NonBlankFrom(r) ==
    IF r > numRows THEN <<>>
    ELSE IF IsBlank(contents[r]) THEN NonBlankFrom(r + 1)
    ELSE <<r>> \o NonBlankFrom(r + 1)

DataLines == NonBlankFrom(numHeaderRows + 1)

(* The value a cell denotes in a column of the given kind. *)
Decoded(kind, cell) ==
    IF cell = "_"
    THEN CASE kind = "int"    -> "missing<int>"
           [] kind = "float"  -> "missing<float>"
           [] kind = "string" -> "missing<string>"
    ELSE CASE kind = "int"    -> (IF cell = "4294967297" THEN "1" ELSE cell)
           [] kind = "float"  -> (IF cell = "4294967297" THEN "4294967296" ELSE cell)
           [] kind = "string" -> cell

(* A cell that a column of the given kind can hold. *)
Decodable(kind, cell) ==
    kind = "string" \/ cell = "_" \/ cell \in {"1", "2", "4294967297"}

(* The payload value of a decoded cell: a float. *)
AsPayload(kind, v) ==
    IF kind = "int" /\ v = "missing<int>" THEN "float(missing<int>)" ELSE v

---------------------------------------------------------------------------
(* C1: a successful load returns a payload of N rows (N the number of data
   rows that are not blank), whose i-th value is the decoded payload cell of
   the i-th data row; every coordinate column of the result holds, in row
   order, the decoded cells of a file column of that name. *)
C1_RowOrder ==
    pc = "done" =>
        LET p == ThePayloadColumn
            N == Len(DataLines)
        IN  /\ Len(returned.payloadArray) = N
            /\ \A i \in 1..N :
                  returned.payloadArray[i] =
                      AsPayload(KindOf(contents[2][p]),
                                Decoded(KindOf(contents[2][p]),
                                        contents[DataLines[i]][p]))
            /\ \A name \in DOMAIN returned.coordsVals :
                  \E c \in (1..Len(contents[1])) \ {p} :
                     /\ Normalized(contents[1][c]) = name
                     /\ returned.coordsVals[name].type = KindOf(contents[2][c])
                     /\ Len(returned.coordsVals[name].values) = N
                     /\ \A i \in 1..N :
                           returned.coordsVals[name].values[i] =
                               Decoded(KindOf(contents[2][c]),
                                       contents[DataLines[i]][c])

(* A table of two rows with different payload values has been returned. *)
C1_Witness ==
    /\ pc = "done"
    /\ Len(contents[1]) = 2
    /\ Len(returned.payloadArray) = 2
    /\ returned.payloadArray[1] # returned.payloadArray[2]

---------------------------------------------------------------------------
(* C4 as stated: in every returned table the coordinate names are pairwise
   distinct and differ from the normalized payload name; dimension 0 is the
   only dimension and lists every non-payload column once, in file order;
   coordsVals and coord2DimMapping have exactly these names as keys, and
   every coordinate maps to dimension 0. *)
C4_IndexStructure ==
    pc = "done" =>
        LET p      == ThePayloadColumn
            n      == Len(contents[1])
            coords == returned.dim2CoordMapping[0]
            others == [i \in 1..(n - 1) |->
                         Normalized(contents[1][IF i < p THEN i ELSE i + 1])]
        IN  /\ DOMAIN returned.dim2CoordMapping = {0}
            /\ coords = others
            /\ \A i, j \in 1..Len(coords) : i # j => coords[i] # coords[j]
            /\ \A i \in 1..Len(coords) : coords[i] # Normalized(contents[1][p])
            /\ DOMAIN returned.coordsVals = {coords[i] : i \in 1..Len(coords)}
            /\ DOMAIN returned.coord2DimMapping = DOMAIN returned.coordsVals
            /\ \A name \in DOMAIN returned.coord2DimMapping :
                  returned.coord2DimMapping[name] = 0

---------------------------------------------------------------------------
(* C10: a load ends with an error and no table, or with a table whose
   payload has at least one row and as many rows as every coordinate column
   and as the file has non-blank data rows.  A file of two rows or fewer
   fails with InsufficientData before the header is read; a file with valid
   headers and only blank data rows fails with NoDataLoaded once every row
   has been consumed.  A load that has not ended can take a step. *)
C10_NonEmptyResult ==
    /\ returned # NoTable =>
          /\ pc = "done"
          /\ error = "none"
          /\ Len(returned.payloadArray) >= 1
          /\ Len(returned.payloadArray) = Len(DataLines)
          /\ \A name \in DOMAIN returned.coordsVals :
                Len(returned.coordsVals[name].values) = Len(returned.payloadArray)
    /\ pc = "done" => returned # NoTable
    /\ pc = "failed" => error # "none" /\ returned = NoTable
    /\ pc # "failed" => error = "none"
    /\ (~HasDataRows /\ pc # "decode") =>
          /\ pc = "failed"
          /\ error = "InsufficientData"
          /\ columnNames = <<>>
          /\ payloadColumnIndex = 0
    /\ (HasDataRows /\ DataLines = <<>> /\ HeadersValid) =>
          /\ pc # "done"
          /\ pc = "failed" => error = "NoDataLoaded" /\ row = numRows + 1
    /\ ~Finished => ENABLED Next

(* A file of valid headers and two blank lines has failed with NoDataLoaded. *)
C10_Witness ==
    /\ pc = "failed"
    /\ error = "NoDataLoaded"
    /\ numRows = 4
    /\ HeadersValid

---------------------------------------------------------------------------
(* The file with column p of every row moved to position j.  A row too short
   to hold both positions is left as it is. *)
MoveCell(cells, p, j) ==
    IF Len(cells) < p \/ Len(cells) < j THEN cells
    ELSE LET rest == SubSeq(cells, 1, p - 1) \o SubSeq(cells, p + 1, Len(cells))
         IN  SubSeq(rest, 1, j - 1) \o <<cells[p]>> \o SubSeq(rest, j, Len(rest))

MoveColumn(file, p, j) == [r \in 1..Len(file) |-> MoveCell(file[r], p, j)]

HasOnePayloadColumn == numRows >= 1 /\ Cardinality(PayloadCandidates) = 1

(* C5 as stated: moving the payload column of a file to any position gives
   the same table if the file is accepted, and a failure of the same kind
   if it is rejected. *)
C5_MoveKeepsOutcome ==
    (Finished /\ HasOnePayloadColumn) =>
        \A j \in 1..Len(contents[1]) :
            LET out == LoadData(MoveColumn(contents, ThePayloadColumn, j),
                                interpolatedArrayGroup)
            IN  /\ pc = "done" => out.returned = returned
                /\ pc = "failed" => out.error = error

(* C5: moving the payload column of a file to any position gives the same
   table if the file is accepted, and a failure if it is rejected; the
   failure is of the same kind, except that UnsupportedColumnType and
   PayloadMustBeNumeric may replace each other (the type tags are checked in
   column order, so the first offending column decides). *)
C5_MoveKeepsTable ==
    (Finished /\ HasOnePayloadColumn) =>
        \A j \in 1..Len(contents[1]) :
            LET out == LoadData(MoveColumn(contents, ThePayloadColumn, j),
                                interpolatedArrayGroup)
            IN  /\ pc = "done" => out.error = "none" /\ out.returned = returned
                /\ pc = "failed" =>
                      /\ out.returned = NoTable
                      /\ out.error # "none"
                      /\ \/ out.error = error
                         \/ {out.error, error} =
                               {"UnsupportedColumnType", "PayloadMustBeNumeric"}

(* A table has been returned from a file whose payload column is the first
   of three. *)
C5_Witness ==
    /\ pc = "done"
    /\ Len(contents[1]) = 3
    /\ payloadColumnIndex = 1
    /\ Len(returned.payloadArray) = 2

---------------------------------------------------------------------------
(* The file with a blank line inserted as row k. *)
InsertBlank(file, k) ==
    SubSeq(file, 1, k - 1) \o << <<"">> >> \o SubSeq(file, k, Len(file))

(* C6: a blank line inserted before, between or after the data rows of an
   accepted file does not change the table that is returned. *)
C6_BlankLineTolerance ==
    pc = "done" =>
        \A k \in (numHeaderRows + 1)..(numRows + 1) :
            LET out == LoadData(InsertBlank(contents, k), interpolatedArrayGroup)
            IN  out.error = "none" /\ out.returned = returned

(* A table has been returned from a file of two columns that holds a blank
   line after its data row. *)
C6_Witness ==
    /\ pc = "done"
    /\ Len(contents[1]) = 2
    /\ numRows = 4
    /\ IsBlank(contents[4])
    /\ Len(returned.payloadArray) = 1

---------------------------------------------------------------------------
TextPayload ==
    /\ HasDataRows
    /\ Len(contents[2]) = Len(contents[1])
    /\ \E c \in 1..Len(contents[2]) : contents[2][c] \in TextTags
    /\ Cardinality(PayloadCandidates) = 1
    /\ contents[2][ThePayloadColumn] \in TextTags

NothingDecoded ==
    /\ row = 0
    /\ \A c \in 1..Len(columns) : columns[c].values = <<>>

(* C7 as stated: a payload column tagged string or datetime makes the load
   fail with PayloadMustBeNumeric before any data row is read. *)
C7_TextPayloadRejected ==
    TextPayload =>
        /\ NothingDecoded
        /\ returned = NoTable
        /\ Finished => pc = "failed" /\ error = "PayloadMustBeNumeric"

(* C7: a payload column tagged string or datetime makes the load fail before
   any data row is read; the failure is PayloadMustBeNumeric when every
   column before the payload column has a recognized tag (otherwise the
   first unrecognized tag before it fails UnsupportedColumnType). *)
C7_TextPayloadRejectedInColumnOrder ==
    TextPayload =>
        /\ NothingDecoded
        /\ returned = NoTable
        /\ Finished =>
              /\ pc = "failed"
              /\ error =
                    IF \A c \in 1..(ThePayloadColumn - 1) :
                          contents[2][c] \in RecognizedTags
                    THEN "PayloadMustBeNumeric"
                    ELSE "UnsupportedColumnType"

(* A load has failed with PayloadMustBeNumeric on a file whose data row
   holds cells that are no numbers. *)
C7_Witness ==
    /\ pc = "failed"
    /\ error = "PayloadMustBeNumeric"
    /\ payloadColumnIndex = 2
    /\ contents[3][1] = "x"

---------------------------------------------------------------------------
(* Row r is a data row that is not blank and has not numColumns cells. *)
WrongWidth(r) ==
    ~IsBlank(contents[r]) /\ Len(contents[r]) # Len(contents[1])

(* Every cell of row r can be held by its column. *)
RowDecodes(r) ==
    \A c \in 1..Len(contents[1]) : Decodable(KindOf(contents[2][c]), contents[r][c])

(* C8: with valid headers, the first data row that is not blank and has not
   numColumns cells makes the load fail with DataRowColumnCountMismatch,
   naming the 1-based line number of that row, once the rows before it have
   been decoded; no table is returned. *)
C8_RowWidth ==
    (Finished /\ HeadersValid) =>
        \A r \in (numHeaderRows + 1)..numRows :
            ( /\ WrongWidth(r)
              /\ \A q \in (numHeaderRows + 1)..(r - 1) :
                    IsBlank(contents[q]) \/ (~WrongWidth(q) /\ RowDecodes(q)) )
            => /\ pc = "failed"
               /\ error = "DataRowColumnCountMismatch"
               /\ errorLine = r
               /\ returned = NoTable
               /\ \A c \in 1..Len(columns) :
                     Len(columns[c].values) =
                        Cardinality({q \in (numHeaderRows + 1)..(r - 1) :
                                        ~IsBlank(contents[q])})

(* A load has failed on line 4, after line 3 was decoded. *)
C8_Witness ==
    /\ pc = "failed"
    /\ error = "DataRowColumnCountMismatch"
    /\ errorLine = 4
    /\ Len(columns) = 2
    /\ Len(columns[1].values) = 1

---------------------------------------------------------------------------
(* Column c after a step is column c before it with the value of the cell
   appended. *)
Appended(c, cell) ==
    /\ columns'[c].type = columns[c].type
    /\ columns'[c].values =
          Append(columns[c].values, Decoded(columns[c].type, cell))

(* C9: each cell of a data row appends exactly one element to its column:
   the missing value of the kind of the column for the placeholder "_",
   without an attempt to convert it, and otherwise the converted number or
   the text itself; the elements already in the column stay as they are.  A
   cell that is no number stops the row: the columns before it have their
   element, the others are unchanged. *)
C9_AppendCell ==
    [][ ( /\ pc = "rows"
          /\ row <= numRows
          /\ ~IsBlank(contents[row])
          /\ Len(contents[row]) = Len(contents[1]) )
        => LET cells == contents[row]
               bad   == {c \in 1..Len(cells) :
                           ~Decodable(columns[c].type, cells[c])}
           IN  /\ Len(columns') = Len(columns)
               /\ bad = {} =>
                     /\ error' = "none"
                     /\ \A c \in 1..Len(cells) : Appended(c, cells[c])
               /\ bad # {} =>
                     /\ error' = "MalformedNumericLiteral"
                     /\ \A c \in 1..Len(cells) :
                           IF \E b \in bad : b <= c
                           THEN columns'[c] = columns[c]
                           ELSE Appended(c, cells[c])
      ]_vars

(* An integer column holds a number followed by the missing value. *)
C9_Witness ==
    /\ pc = "rows"
    /\ Len(columns) = 2
    /\ columns[1].type = "int"
    /\ columns[1].values = <<"1", "missing<int>">>
    /\ contents[4][1] = "_"

===========================================================================
